---- MODULE Spec2Model ----
(***************************************************************************)
(* Model of the note cache of ProjectDetailPage                            *)
(* (src/src/routes/ProjectDetailPage.tsx): the task list delivered by the  *)
(* useTasks query, the taskNotes state, the effect that prunes it, the     *)
(* effect that fills it with listNotes requests, and handleUpdateTask.     *)
(*                                                                         *)
(* A setTaskNotes call whose updater returns a new object is followed by   *)
(* a render, and a render runs the effects whose dependencies changed:     *)
(* each action below is the handler together with the renders and effect   *)
(* runs it causes, up to the point where the component waits for the next  *)
(* event (a new task list, a listNotes answer, a submitted edit).          *)
(*                                                                         *)
(* run is the run of the fill effect whose ignore flag is still false (at  *)
(* most one: the cleanup of a run sets its flag before the next run), and  *)
(* inFlight counts, per task, the listNotes calls of the runs whose flag   *)
(* is set and that have not settled.  lastCall is a history variable: for *)
(* each task, why the call issued last for it was issued and how it was   *)
(* answered to the run that could write, if it was.                        *)
(*                                                                         *)
(* The timeline of the same page is modelled next to it: the memos         *)
(* timelineEntries, projectStart, columnCount and taskDayRange, computed   *)
(* by the render that follows new data of useProject, useTags or useTasks. *)
(* Spec follows the note cache, SpecDayRange one tag with every date and   *)
(* duration of the bounds, SpecTimeline lists of several tags and tasks.   *)
(***************************************************************************)
EXTENDS Integers, Sequences, FiniteSets, TLC

VARIABLES tasks, taskNotes, run, inFlight, lastCall

\* the timeline of the same page: the project, the tag list and the task
\* list as their queries delivered them (of a task or tag the fields the
\* timeline reads: id, startAt, endAt, duration), and the values the last
\* render computed from them
VARIABLES project, tagsData, tasksData, timelineEntries, columnCount, taskDayRange

cacheVars == <<tasks, taskNotes, run, inFlight, lastCall>>

timelineVars ==
    <<project, tagsData, tasksData, timelineEntries, columnCount, taskDayRange>>

\* the actions of the tasks as useAllActions delivered them, and the state
\* of the three action modals
VARIABLES actions, isActionConfirmModalOpen, isActionCreateModalOpen,
          isActionViewModalOpen, selectedCellInfo, actionToView,
          isActionEditMode

modalVars ==
    <<isActionConfirmModalOpen, isActionCreateModalOpen, isActionViewModalOpen,
      selectedCellInfo, actionToView, isActionEditMode>>

actionVars == <<actions, modalVars>>

\* the task form (src/src/components/TaskModal.tsx): whether it is open,
\* the task it edits (NULL when it creates one), the note fields of its
\* form state and its error line.  submitted is a history variable: the
\* form state, the existing note and the note action of the last onSubmit
\* call.
VARIABLES isOpen, formTask, form, formError, submitted

formVars == <<isOpen, formTask, form, formError, submitted>>

\* the update mutation of useTasks (src/src/hooks/useTasks.ts): its status
\* with the variables it was called with and the step it waits in, the
\* task and the note as the backend stores them, and whether the task list
\* query is invalidated.  sent is a history variable: the requests the
\* mutation at hand has sent, in order.
VARIABLES mutation, backendTask, backendNote, queryInvalidated, sent

hookVars == <<mutation, backendTask, backendNote, queryInvalidated, sent>>

\* the components and hooks next to the page
componentVars == <<formVars, hookVars>>

\* what the note cache leaves alone, and what a render of the timeline does
exceptCache == <<timelineVars, actionVars, componentVars>>
exceptTimeline == <<cacheVars, modalVars, componentVars>>
pageVars == <<cacheVars, timelineVars, actionVars>>

vars == <<cacheVars, timelineVars, actionVars, componentVars>>

\* ---------------------------------------------------------------- bounds
MaxStamp == 2
MaxInFlight == 2
MaxContent == 1

\* ---------------------------------------------------------------- values
TaskIds == {"t1", "t2"}
Stamps == 1..MaxStamp

NULL == [kind |-> "null"]
UNDEF == [kind |-> "undefined"]
MkNote(i, b) == [kind |-> "note", id |-> i, body |-> b]
Notes == {MkNote("n1", "a"), MkNote("n1", "b")}

\* TaskRes.note is optional: absent, an explicit null, or a note
InlineNotes == {UNDEF, NULL, MkNote("n1", "a")}
TaskRes == [updatedAt : Stamps, note : InlineNotes]
TaskLists == UNION {[S -> TaskRes] : S \in SUBSET TaskIds}

\* a copy of the record f with the keys S only
Restrict(f, S) == [x \in S |-> f[x]]

\* the lists the query can deliver after the list cur: the first list is
\* any list; the query is then refetched after each create, update or
\* delete of a task, and the new list differs from cur in that one task
NextLists(cur) ==
    IF DOMAIN cur = {}
    THEN TaskLists
    ELSE {Restrict(cur, DOMAIN cur \ {t}) : t \in DOMAIN cur}
         \cup {[u \in DOMAIN cur \cup {t} |-> IF u = t THEN v ELSE cur[u]] :
                  t \in TaskIds, v \in TaskRes}

TaskNoteCacheEntry(n, s) == [note |-> n, taskUpdatedAt |-> s]

EmptyCache == [t \in {} |-> NULL]

\* the pages listNotes can answer with
Contents == UNION {[1..k -> Notes] : k \in 0..MaxContent}

\* note?.id and note?.body
OptId(n) == IF n.kind = "note" THEN n.id ELSE "undefined"
OptBody(n) == IF n.kind = "note" THEN n.body ELSE "undefined"

\* response.content[0] ?? null
FirstNote(content) == IF Len(content) = 0 THEN NULL ELSE content[1]

\* a ?? b takes b when a is null or undefined
Nullish(n) == n = NULL \/ n = UNDEF

\* resolvedNote of a task row: entry.item.note ?? taskNotes[id]?.note ?? null
ResolvedNote(ts, cache, t) ==
    IF ~Nullish(ts[t].note) THEN ts[t].note
    ELSE IF t \in DOMAIN cache /\ ~Nullish(cache[t].note) THEN cache[t].note
    ELSE NULL

\* ------------------------------------------------------- prune effect
\* mutant: entries with another taskUpdatedAt are kept
PruneNotesKeepStale(ts, prev) ==
    Restrict(prev, {t \in DOMAIN prev : t \in DOMAIN ts})

\* mutant: entries of absent tasks are kept
PruneNotesKeepAbsent(ts, prev) ==
    Restrict(prev, {t \in DOMAIN prev :
                      t \in DOMAIN ts => prev[t].taskUpdatedAt = ts[t].updatedAt})

\* the updater of the prune effect: entries of absent tasks and entries
\* whose taskUpdatedAt differs from the task's updatedAt are left out
PruneNotes(ts, prev) ==
    Restrict(prev, {t \in DOMAIN prev :
                      /\ t \in DOMAIN ts
                      /\ prev[t].taskUpdatedAt = ts[t].updatedAt})

\* the prune effect: setTaskNotes({}) on an empty list, the updater otherwise
PruneEffect(ts, prev) ==
    IF DOMAIN ts = {}
    THEN [notes |-> EmptyCache, changed |-> TRUE]
    ELSE [notes |-> PruneNotes(ts, prev),
          changed |-> PruneNotes(ts, prev) # prev]

\* -------------------------------------------------------- fill effect
\* mutant: tasks with an inline note are not skipped
TasksNeedingNotesInline(ts, cache) ==
    {t \in DOMAIN ts :
        \/ t \notin DOMAIN cache
        \/ cache[t].taskUpdatedAt # ts[t].updatedAt}

TasksNeedingNotes(ts, cache) ==
    {t \in DOMAIN ts :
        /\ ts[t].note = UNDEF
        /\ \/ t \notin DOMAIN cache
           \/ cache[t].taskUpdatedAt # ts[t].updatedAt}

Pending == [st |-> "pending", note |-> NULL]
Ok(n) == [st |-> "ok", note |-> n]
Failed == [st |-> "failed", note |-> NULL]

\* no run of the fill effect has its ignore flag unset
NoRun == [stamp |-> [t \in {} |-> 0], status |-> [t \in {} |-> Pending]]

\* one run of the async function of the fill effect: the tasks it asks
\* for with the updatedAt they had, and the state of each listNotes call
NewRun(ts, need) ==
    [stamp |-> [t \in need |-> ts[t].updatedAt],
     status |-> [t \in need |-> Pending]]

PendingOf(r) == {t \in DOMAIN r.status : r.status[t].st = "pending"}

\* the effect state: the run not ignored, the calls of ignored runs
Eff(r, f) == [run |-> r, inFlight |-> f]

\* the cleanup of an effect run sets its ignore flag: its calls in flight
\* stay in flight, and whatever they answer is dropped
Cleanup(e) ==
    Eff(NoRun, [t \in TaskIds |->
                  e.inFlight[t] + (IF t \in PendingOf(e.run) THEN 1 ELSE 0)])

\* mutant: a run that has nothing to fetch leaves the ignore flag of the
\* run before it unset
FillEffectNoCleanup(ts, cache, e) ==
    LET need == TasksNeedingNotes(ts, cache)
    IN IF DOMAIN ts = {} \/ need = {}
       THEN e
       ELSE Eff(NewRun(ts, need), Cleanup(e).inFlight)

\* cleanup of the previous run, then the body of the effect
FillEffect(ts, cache, e) ==
    LET need == TasksNeedingNotes(ts, cache)
        c == Cleanup(e)
    IN IF DOMAIN ts = {} \/ need = {}
       THEN c
       ELSE Eff(NewRun(ts, need), c.inFlight)

\* the render after the task list changed: the prune effect queues its
\* updater, the fill effect runs with the cache of this render, and when
\* the updater returned a new object a second render runs the fill effect
\* again with the pruned cache
RenderTasks(ts, cache, e) ==
    LET p == PruneEffect(ts, cache)
        e1 == FillEffect(ts, cache, e)
    IN IF p.changed
       THEN [notes |-> p.notes, eff |-> FillEffect(ts, p.notes, e1)]
       ELSE [notes |-> cache, eff |-> e1]

\* the render after setTaskNotes stored a new object: tasks is unchanged,
\* so only the fill effect runs
RenderNotes(ts, cache, next, e) ==
    IF next # cache
    THEN [notes |-> next, eff |-> FillEffect(ts, next, e)]
    ELSE [notes |-> cache, eff |-> e]

\* mutant: only the entry of one task of the run is written
ApplyResultsPartial(prev, r) ==
    LET one == CHOOSE t \in DOMAIN r.stamp : TRUE
    IN [t \in DOMAIN prev \cup {one} |->
          IF t = one
          THEN TaskNoteCacheEntry(r.status[t].note, r.stamp[t])
          ELSE prev[t]]

\* updater after Promise.all resolved
ApplyResults(prev, r) ==
    LET Write(t) ==
          \/ t \notin DOMAIN prev
          \/ prev[t].taskUpdatedAt # r.stamp[t]
          \/ OptId(prev[t].note) # OptId(r.status[t].note)
          \/ OptBody(prev[t].note) # OptBody(r.status[t].note)
    IN [t \in DOMAIN prev \cup DOMAIN r.stamp |->
          IF t \in DOMAIN r.stamp /\ Write(t)
          THEN TaskNoteCacheEntry(r.status[t].note, r.stamp[t])
          ELSE prev[t]]

\* mutant: the catch branch leaves the cache as it is
ApplyFailureKeep(prev, r) == prev

\* updater of the catch branch
ApplyFailure(prev, r) ==
    LET Write(t) ==
          \/ t \notin DOMAIN prev
          \/ prev[t].taskUpdatedAt # r.stamp[t]
          \/ prev[t].note # NULL
    IN [t \in DOMAIN prev \cup DOMAIN r.stamp |->
          IF t \in DOMAIN r.stamp /\ Write(t)
          THEN TaskNoteCacheEntry(NULL, r.stamp[t])
          ELSE prev[t]]

\* the listNotes calls for task t that have not settled
Outstanding(e, t) ==
    e.inFlight[t] + (IF t \in PendingOf(e.run) THEN 1 ELSE 0)

\* the bound of the model on the calls in flight
WithinBound(e) == \A t \in TaskIds : Outstanding(e, t) <= MaxInFlight

\* history values: no call yet, a call issued (for want of an entry, or
\* after the prune effect dropped a stale one), a failed call
NONE == [kind |-> "none"]
PENDING == [kind |-> "pending"]
REFETCH == [kind |-> "refetch"]
FAILED == [kind |-> "failed"]

\* history: a call issued for t replaces what is known of the earlier one
Issued(old, e, stale) ==
    [t \in TaskIds |->
        IF Outstanding(e, t) > Outstanding(old, t)
        THEN (IF t \in stale THEN REFETCH ELSE PENDING)
        ELSE lastCall[t]]

\* mutant: the whole cache is cleared
DeleteEntryAll(prev, t) == EmptyCache

\* updater of handleUpdateTask: a copy of the cache without the entry of t
DeleteEntry(prev, t) == Restrict(prev, DOMAIN prev \ {t})

\* history: a call issued for t because handleUpdateTask deleted an entry
\* of t that carried the updatedAt the task has
EDITED == [kind |-> "edited"]
IssuedAfterEdit(old, e, t) ==
    [u \in TaskIds |->
        IF /\ u = t
           /\ Outstanding(e, t) > Outstanding(old, t)
           /\ t \in DOMAIN taskNotes
           /\ taskNotes[t].taskUpdatedAt = tasks[t].updatedAt
        THEN EDITED
        ELSE Issued(old, e, {})[u]]

\* the tasks whose entry carries another updatedAt than the list ts
StaleIn(ts, cache) ==
    {t \in DOMAIN cache \cap DOMAIN ts :
        cache[t].taskUpdatedAt # ts[t].updatedAt}

\* ================================================================ timeline
\* ------------------------------------------------------- timeline bounds
\* calendar days are numbered; the days near the anchor are 0..MaxDay
MaxDay == 2
\* one day far after them, beyond the minimum number of columns
FarDay == 44
\* the anchor of a project is one of the days 0..MaxAnchor
MaxAnchor == 1
\* durations are -1..MaxDuration
MaxDuration == 2

MINIMUM_DAY_COLUMNS == 30

\* ------------------------------------------------------- timeline values
TagIds == {"g1", "g2"}

\* date strings.  A calendar day is written in ISO-8601 (2024-01-05 or
\* 2024-01-05T00:00:00) or as DD-MM-YYYY (05-01-2024); day is the number
\* of that day in the local calendar.  MALFORMED is a string that is no
\* date in either form, EMPTY the string ''.
Iso(d) == [kind |-> "iso", day |-> d]
Dmy(d) == [kind |-> "dmy", day |-> d]
MALFORMED == [kind |-> "malformed"]
EMPTY == [kind |-> "empty"]

Days == (0..MaxDay) \cup {FarDay}
AnchorDays == 0..MaxAnchor

\* a number, where the code holds a number, null or undefined
Num(n) == [kind |-> "number", value |-> n]

\* startAt and endAt of a task or tag: the API writes ISO-8601
EntityDates == {UNDEF, MALFORMED} \cup {Iso(d) : d \in Days}
Durations == {UNDEF} \cup {Num(n) : n \in -1..MaxDuration}
Entities(ids) ==
    [id : ids, startAt : EntityDates, endAt : EntityDates, duration : Durations]

\* project?.startDate: no project yet, or the startDate of the project
ProjectRes ==
    [startDate : {UNDEF, EMPTY, MALFORMED}
                   \cup {Iso(d) : d \in AnchorDays} \cup {Dmy(d) : d \in AnchorDays}]
Projects == {UNDEF} \cup ProjectRes

\* a Dayjs object
Invalid == [kind |-> "dayjs", valid |-> FALSE]
Valid(d) == [kind |-> "dayjs", valid |-> TRUE, day |-> d]

\* !value of a string or a missing value
Falsy(value) == value \in {UNDEF, NULL, EMPTY}

\* dayjs(value): the default parser reads ISO-8601
Dayjs(value) == IF value.kind = "iso" THEN Valid(value.day) ELSE Invalid

\* dayjs(value, 'DD-MM-YYYY', true): the strict parser reads that format only
DayjsStrict(value) == IF value.kind = "dmy" THEN Valid(value.day) ELSE Invalid

\* a.startOf('day').diff(b, 'day') of two valid dates
Diff(a, b) == a.day - b.day

Max(a, b) == IF a >= b THEN a ELSE b
Min(a, b) == IF a <= b THEN a ELSE b

\* the memo projectStart: the anchor of the day numbers, or null
ProjectStart(p) ==
    IF p = UNDEF \/ Falsy(p.startDate)
    THEN NULL
    ELSE LET parsed == DayjsStrict(p.startDate)
         IN IF parsed.valid THEN parsed ELSE NULL

\* mutant: tasks before tags
TimelineEntriesTasksFirst(tgs, tks) ==
    [i \in 1..Len(tks) |-> [entryType |-> "task", item |-> tks[i]]]
    \o [i \in 1..Len(tgs) |-> [entryType |-> "tag", item |-> tgs[i]]]

\* the memo timelineEntries
TimelineEntries(tgs, tks) ==
    [i \in 1..Len(tgs) |-> [entryType |-> "tag", item |-> tgs[i]]]
    \o [i \in 1..Len(tks) |-> [entryType |-> "task", item |-> tks[i]]]

\* mutant: the day number counts from 0
DayNumberFromZero(date, projectStart) == Num(Max(1, Diff(date, projectStart)))

\* Math.max(1, date.startOf('day').diff(projectStart, 'day') + 1)
DayNumber(date, projectStart) == Num(Max(1, Diff(date, projectStart) + 1))

\* mutant: zero counts as a duration
HasDurationNonNegative(item) ==
    item.duration.kind = "number" /\ item.duration.value >= 0

\* typeof item.duration === 'number' && item.duration > 0
HasDuration(item) == item.duration.kind = "number" /\ item.duration.value > 0

\* mutant: the start is one day too early
StartFromEndOffByOne(endDay, duration) == Num(Max(1, endDay.value - duration.value))

\* startDay of an item with an end date and a duration only
StartFromEnd(endDay, duration) == Num(Max(1, endDay.value - duration.value + 1))

\* endDay of an item with a start date and a duration only
EndFromStart(startDay, duration) == Num(startDay.value + duration.value - 1)

\* mutant: a ?? b without the fallback
CoalesceFirst(a, b) == a

\* a ?? b
Coalesce(a, b) == IF Nullish(a) THEN b ELSE a

\* mutant: start and end are taken as they come
NormalizeAsGiven(tentativeStart, tentativeEnd) ==
    [start |-> tentativeStart.value, end |-> tentativeEnd.value]

\* normalizedStart and normalizedEnd before the duration is looked at
Normalize(tentativeStart, tentativeEnd) ==
    [start |-> Min(tentativeStart.value, tentativeEnd.value),
     end |-> Max(tentativeStart.value, tentativeEnd.value)]

\* mutant: the duration does not extend the range
ExtendKeep(range, item) == range

\* the end is moved to the day the duration asks for, if that is later
Extend(range, item) ==
    IF HasDuration(item)
    THEN LET expectedEnd == range.start + item.duration.value - 1
         IN IF expectedEnd > range.end
            THEN [range EXCEPT !.end = expectedEnd]
            ELSE range
    ELSE range

\* one pass of the forEach callback: the range rangeMap.set stores for
\* item, or undefined where the callback returns before it
DayRange(item, projectStart) ==
    LET rawStartDate == IF Falsy(item.startAt) THEN NULL ELSE Dayjs(item.startAt)
        rawEndDate == IF Falsy(item.endAt) THEN NULL ELSE Dayjs(item.endAt)
        hasValidStart == IF Nullish(rawStartDate) THEN FALSE ELSE rawStartDate.valid
        hasValidEnd == IF Nullish(rawEndDate) THEN FALSE ELSE rawEndDate.valid
        startDay0 == IF hasValidStart THEN DayNumber(rawStartDate, projectStart) ELSE NULL
        endDay0 == IF hasValidEnd THEN DayNumber(rawEndDate, projectStart) ELSE NULL
        hasDuration == HasDuration(item)
        startDay == IF ~hasValidStart /\ hasValidEnd /\ hasDuration
                    THEN StartFromEnd(endDay0, item.duration)
                    ELSE startDay0
        endDay == IF hasValidStart /\ ~hasValidEnd /\ hasDuration
                  THEN EndFromStart(startDay, item.duration)
                  ELSE endDay0
    IN IF startDay = NULL /\ endDay = NULL
       THEN UNDEF
       ELSE LET tentativeStart == Coalesce(startDay, endDay)
                tentativeEnd == Coalesce(endDay, startDay)
            IN IF tentativeStart = NULL \/ tentativeEnd = NULL
               THEN UNDEF
               ELSE Extend(Normalize(tentativeStart, tentativeEnd), item)

\* the Map without entries
EmptyMap == [k \in {} |-> UNDEF]

\* map.set(key, value)
MapSet(map, key, value) ==
    [k \in DOMAIN map \cup {key} |-> IF k = key THEN value ELSE map[k]]

\* map.get(key)
MapGet(map, key) == IF key \in DOMAIN map THEN map[key] ELSE UNDEF

\* timelineEntries.forEach from entry i on: maxDay and rangeMap after it
RECURSIVE ForEachEntry(_, _, _, _)
ForEachEntry(entries, projectStart, i, acc) ==
    IF i > Len(entries)
    THEN acc
    ELSE LET item == entries[i].item
             range == DayRange(item, projectStart)
         IN ForEachEntry(entries, projectStart, i + 1,
               IF range = UNDEF
               THEN acc
               ELSE [maxDay |-> Max(acc.maxDay, range.end),
                     rangeMap |-> MapSet(acc.rangeMap, item.id, range)])

\* mutant: the minimum is not applied
FinalColumnCountNoMinimum(maxDay) == maxDay

\* Math.max(maxDay, MINIMUM_DAY_COLUMNS)
FinalColumnCount(maxDay) == Max(maxDay, MINIMUM_DAY_COLUMNS)

\* mutant: no padding
PaddedColumnCountNoPadding(finalColumnCount) == finalColumnCount

\* mutant: one day of padding
PaddedColumnCountByOne(finalColumnCount) == finalColumnCount + 1

\* ten days of padding after the last day
PaddedColumnCount(finalColumnCount) == finalColumnCount + 10

\* mutant: the padding is added without an anchor too
ColumnsAndRangesPadded(projectStart, entries) ==
    IF projectStart = NULL
    THEN [columnCount |-> PaddedColumnCount(MINIMUM_DAY_COLUMNS),
          taskDayRange |-> EmptyMap]
    ELSE LET acc == ForEachEntry(entries, projectStart, 1,
                                 [maxDay |-> 0, rangeMap |-> EmptyMap])
         IN [columnCount |-> PaddedColumnCount(FinalColumnCount(acc.maxDay)),
             taskDayRange |-> acc.rangeMap]

\* the memo of columnCount and taskDayRange
ColumnsAndRanges(projectStart, entries) ==
    IF projectStart = NULL
    THEN [columnCount |-> MINIMUM_DAY_COLUMNS, taskDayRange |-> EmptyMap]
    ELSE LET acc == ForEachEntry(entries, projectStart, 1,
                                 [maxDay |-> 0, rangeMap |-> EmptyMap])
         IN [columnCount |-> PaddedColumnCount(FinalColumnCount(acc.maxDay)),
             taskDayRange |-> acc.rangeMap]

\* a cell of the row is active on the days of the range of its entity
IsActive(dayRange, dayNumber) ==
    /\ dayRange # UNDEF
    /\ dayRange.start <= dayNumber
    /\ dayNumber <= dayRange.end

\* mutant: the marker is on the first day of the range
IsEndDayAtStart(dayRange, dayNumber) ==
    IsActive(dayRange, dayNumber) /\ dayRange.start = dayNumber

\* the cell of the last day of the range carries the marker
IsEndDay(dayRange, dayNumber) ==
    IsActive(dayRange, dayNumber) /\ dayRange.end = dayNumber

\* the memo dayColumns: the day numbers 1..columnCount
DayColumns(count) == 1..count

\* what a render computes from the data of the three queries
Render(p, tgs, tks) ==
    LET entries == TimelineEntries(tgs, tks)
        memo == ColumnsAndRanges(ProjectStart(p), entries)
    IN [timelineEntries |-> entries,
        columnCount |-> memo.columnCount,
        taskDayRange |-> memo.taskDayRange]

\* ----------------------------------------------------- task form values
\* a string is the sequence of its characters; Space is the white space
\* String.prototype.trim removes
MaxNoteLen == 3
NOTE_MAX_LENGTH == 20000
Space == " "
Chars == {Space, "a"}
Strings == UNION {[1..n -> Chars] : n \in 0..MaxNoteLen}

RECURSIVE TrimStart(_)
TrimStart(s) ==
    IF s = <<>> THEN s
    ELSE IF Head(s) = Space THEN TrimStart(Tail(s)) ELSE s

RECURSIVE TrimEnd(_)
TrimEnd(s) ==
    IF s = <<>> THEN s
    ELSE IF s[Len(s)] = Space THEN TrimEnd(SubSeq(s, 1, Len(s) - 1)) ELSE s

Trim(s) == TrimEnd(TrimStart(s))

\* the note of the task the form edits: absent, null, or a note of the
\* backend, whose body need not be trimmed
FormNotes == {UNDEF, NULL, MkNote("n1", <<"a">>), MkNote("n1", <<"a", Space>>)}
\* the task prop: NULL when the form creates a task
FormTasks == {NULL} \cup [note : FormNotes]

FormState == [hasNote : BOOLEAN, note : Strings]

\* task.note ?? null, task?.note?.body ?? ''
NoteOf(t) == IF t = NULL \/ Nullish(t.note) THEN NULL ELSE t.note

createInitialState(t) ==
    [hasNote |-> NoteOf(t) # NULL,
     note |-> IF NoteOf(t) # NULL THEN NoteOf(t).body ELSE <<>>]

determineNoteActionUpdateAlways(hasNote, note, existingNote) ==
    IF ~hasNote
    THEN IF existingNote # NULL
         THEN [type |-> "delete", id |-> existingNote.id]
         ELSE [type |-> "none"]
    ELSE IF note = <<>> THEN [type |-> "none"]
    ELSE IF existingNote = NULL THEN [type |-> "create", body |-> note]
    ELSE [type |-> "update", id |-> existingNote.id, body |-> note]

determineNoteAction(hasNote, note, existingNote) ==
    IF ~hasNote
    THEN IF existingNote # NULL
         THEN [type |-> "delete", id |-> existingNote.id]
         ELSE [type |-> "none"]
    ELSE IF note = <<>> THEN [type |-> "none"]
    ELSE IF existingNote = NULL THEN [type |-> "create", body |-> note]
    ELSE IF existingNote.body # note
         THEN [type |-> "update", id |-> existingNote.id, body |-> note]
         ELSE [type |-> "none"]

\* ------------------------------------------------ update mutation values
TaskUpdateInputs == [title : {"x", "y"}]

\* the note actions the mutation is called with
NoteActions ==
    {[type |-> "none"],
     [type |-> "create", body |-> <<"a">>],
     [type |-> "update", id |-> "n1", body |-> <<"a", "a">>],
     [type |-> "delete", id |-> "n1"]}

\* the mutation: idle, or called with data and noteAction; step is the
\* request the mutationFn awaits while the status is pending, and the
\* request it had reached when it settled
Idle == [status |-> "idle"]
Mutation(status, step, data, noteAction) ==
    [status |-> status, step |-> step, data |-> data, noteAction |-> noteAction]

\* a request to the backend
Request(name) == [request |-> name]

\* mutant: no note request is sent
handleNoteActionSkip(noteAction) == NULL

\* handleNoteAction: the request it sends and awaits, NULL for 'none'
handleNoteAction(noteAction) ==
    IF noteAction.type = "none" THEN NULL
    ELSE IF noteAction.type = "create" THEN Request("createNote")
    ELSE IF noteAction.type = "update" THEN Request("updateNote")
    ELSE Request("deleteNote")

\* the note of the backend after the request of noteAction was served
ServeNote(note, noteAction) ==
    IF noteAction.type = "create" THEN MkNote("n1", noteAction.body)
    ELSE IF noteAction.type = "update"
    THEN (IF note # NULL /\ note.id = noteAction.id
          THEN MkNote(note.id, noteAction.body) ELSE note)
    ELSE IF noteAction.type = "delete"
    THEN (IF note # NULL /\ note.id = noteAction.id THEN NULL ELSE note)
    ELSE note

\* ------------------------------------------------------------- actions
Init ==
    /\ tasks = [t \in {} |-> NULL]
    /\ taskNotes = EmptyCache
    /\ run = NoRun
    /\ inFlight = [t \in TaskIds |-> 0]
    /\ lastCall = [t \in TaskIds |-> NONE]
    /\ project = UNDEF
    /\ tagsData = <<>>
    /\ tasksData = <<>>
    /\ \E r \in {Render(UNDEF, <<>>, <<>>)} :
          /\ timelineEntries = r.timelineEntries
          /\ columnCount = r.columnCount
          /\ taskDayRange = r.taskDayRange
    /\ actions = <<>>
    /\ isActionConfirmModalOpen = FALSE
    /\ isActionCreateModalOpen = FALSE
    /\ isActionViewModalOpen = FALSE
    /\ selectedCellInfo = NULL
    /\ actionToView = NULL
    /\ isActionEditMode = FALSE
    /\ isOpen = FALSE
    /\ formTask = NULL
    /\ form = createInitialState(NULL)
    /\ formError = NULL
    /\ submitted = NULL
    /\ mutation = Idle
    /\ backendTask = [title |-> "x"]
    /\ backendNote = NULL
    /\ queryInvalidated = FALSE
    /\ sent = <<>>

\* the query delivers a new task list
TasksChange(ts) ==
    /\ ts # tasks
    /\ \E r \in {RenderTasks(ts, taskNotes, Eff(run, inFlight))} :
          /\ WithinBound(r.eff)
          /\ tasks' = ts
          /\ taskNotes' = r.notes
          /\ run' = r.eff.run
          /\ inFlight' = r.eff.inFlight
          /\ lastCall' = Issued(Eff(run, inFlight), r.eff, StaleIn(ts, taskNotes))
    /\ UNCHANGED exceptCache

\* a listNotes call of the run answers with a page; the last answer
\* resolves Promise.all
FetchOk(t, content) ==
    /\ t \in PendingOf(run)
    /\ LET r1 == [run EXCEPT !.status[t] = Ok(FirstNote(content))]
           next == IF \A u \in DOMAIN r1.status : r1.status[u].st = "ok"
                   THEN ApplyResults(taskNotes, r1) ELSE taskNotes
       IN \E r \in {RenderNotes(tasks, taskNotes, next, Eff(r1, inFlight))} :
          /\ WithinBound(r.eff)
          /\ taskNotes' = r.notes
          /\ run' = r.eff.run
          /\ inFlight' = r.eff.inFlight
          /\ lastCall' = [Issued(Eff(r1, inFlight), r.eff, {})
                            EXCEPT ![t] = FirstNote(content)]
    /\ UNCHANGED tasks
    /\ UNCHANGED exceptCache

\* a listNotes call of the run fails: Promise.all rejects at once
FetchFail(t) ==
    /\ t \in PendingOf(run)
    /\ LET r1 == [run EXCEPT !.status[t] = Failed]
           rejects == \A u \in DOMAIN run.status : run.status[u].st # "failed"
           next == IF rejects THEN ApplyFailure(taskNotes, r1) ELSE taskNotes
       IN \E r \in {RenderNotes(tasks, taskNotes, next, Eff(r1, inFlight))} :
          /\ WithinBound(r.eff)
          /\ taskNotes' = r.notes
          /\ run' = r.eff.run
          /\ inFlight' = r.eff.inFlight
          /\ lastCall' = [Issued(Eff(r1, inFlight), r.eff, {}) EXCEPT ![t] = FAILED]
    /\ UNCHANGED tasks
    /\ UNCHANGED exceptCache

\* a listNotes call of a run whose ignore flag is set settles
IgnoredSettle(t) ==
    /\ inFlight[t] > 0
    /\ inFlight' = [inFlight EXCEPT ![t] = @ - 1]
    /\ UNCHANGED <<tasks, taskNotes, run, lastCall>>
    /\ UNCHANGED exceptCache

\* handleUpdateTask after updateTask succeeded: the entry of the edited
\* task is deleted from a copy of the cache, which is always a new object
UpdateTask(t) ==
    /\ t \in DOMAIN tasks
    /\ LET next == DeleteEntry(taskNotes, t)
       IN \E e \in {FillEffect(tasks, next, Eff(run, inFlight))} :
          /\ WithinBound(e)
          /\ taskNotes' = next
          /\ run' = e.run
          /\ inFlight' = e.inFlight
          /\ lastCall' = IssuedAfterEdit(Eff(run, inFlight), e, t)
    /\ UNCHANGED tasks
    /\ UNCHANGED exceptCache

Next ==
    \/ \E ts \in NextLists(tasks) : TasksChange(ts)
    \/ \E t \in TaskIds, c \in Contents : FetchOk(t, c)
    \/ \E t \in TaskIds : FetchFail(t)
    \/ \E t \in TaskIds : IgnoredSettle(t)
    \/ \E t \in TaskIds : UpdateTask(t)

Spec == Init /\ [][Next]_vars

\* ------------------------------------------------------ action values
ActionIds == {"a1", "a2"}

\* the days actions are on: two days after the days near the anchor
ActionDays == {MaxDay + 1, MaxDay + 2}

ActionRes == [id : ActionIds, taskId : TaskIds, day : ActionDays]

\* the memo taskIds
TaskIdsOf(tks) == {tks[i].id : i \in 1..Len(tks)}

\* actionsData?.content ?? []: the query key of useAllActions holds the
\* task ids, so with other task ids the query has no data yet
ActionsOf(oldTasks, newTasks, acts) ==
    IF TaskIdsOf(newTasks) = TaskIdsOf(oldTasks) THEN acts ELSE <<>>

\* the positions of the actions of a task on a day
Matches(acts, taskId, dayNumber) ==
    {k \in 1..Len(acts) : acts[k].taskId = taskId /\ acts[k].day = dayNumber}

\* mutant: the last action of the task on the day
FindLastAction(acts, taskId, dayNumber) ==
    LET ks == Matches(acts, taskId, dayNumber)
    IN IF ks = {} THEN UNDEF
       ELSE acts[CHOOSE k \in ks : \A j \in ks : j <= k]

\* actions.find(action => action.taskId === taskId && action.day === dayNumber)
FindAction(acts, taskId, dayNumber) ==
    LET ks == Matches(acts, taskId, dayNumber)
    IN IF ks = {} THEN UNDEF
       ELSE acts[CHOOSE k \in ks : \A j \in ks : k <= j]

\* hasAction of a cell
HasAction(isTag, acts, itemId, dayNumber) ==
    ~isTag /\ \E k \in 1..Len(acts) :
                 acts[k].taskId = itemId /\ acts[k].day = dayNumber

\* ------------------------------------------------------ timeline actions
\* the position of a list without its entry i
RemoveAt(list, i) == [j \in 1..(Len(list) - 1) |-> IF j < i THEN list[j] ELSE list[j + 1]]

\* an edit changes one of the dates or the duration of an entity (an edit
\* of several of them is several such steps)
EditOf(old, new) ==
    /\ new.id = old.id
    /\ \/ new.startAt # old.startAt /\ new.endAt = old.endAt /\ new.duration = old.duration
       \/ new.startAt = old.startAt /\ new.endAt # old.endAt /\ new.duration = old.duration
       \/ new.startAt = old.startAt /\ new.endAt = old.endAt /\ new.duration # old.duration

\* the lists a query can deliver after the list cur: the query is
\* refetched after each create, update or delete of a task or tag, and the
\* new list differs from cur in that one entity.  ents are the entities
\* the lists are made of; ids are unique within a list.
NextEntityLists(cur, ents) ==
    LET used == {cur[i].id : i \in 1..Len(cur)}
    IN {RemoveAt(cur, i) : i \in 1..Len(cur)}
       \cup {Append(cur, e) : e \in {x \in ents : x.id \notin used}}
       \cup UNION {{[cur EXCEPT ![i] = e] : e \in {x \in ents : EditOf(cur[i], x)}} :
                   i \in 1..Len(cur)}

\* the render after one of the three queries delivered new data
Rendered(p, tgs, tks) ==
    \E r \in {Render(p, tgs, tks)} :
       /\ project' = p
       /\ tagsData' = tgs
       /\ tasksData' = tks
       /\ timelineEntries' = r.timelineEntries
       /\ columnCount' = r.columnCount
       /\ taskDayRange' = r.taskDayRange
       /\ actions' = ActionsOf(tasksData, tks, actions)
       /\ UNCHANGED exceptTimeline

\* useProject delivers the project
ProjectLoaded(p) ==
    /\ p # project
    /\ Rendered(p, tagsData, tasksData)

\* useTags delivers a tag list
TagsLoaded(tgs) ==
    /\ tgs # tagsData
    /\ Rendered(project, tgs, tasksData)

\* useTasks delivers a task list
TasksLoaded(tks) ==
    /\ tks # tasksData
    /\ Rendered(project, tagsData, tks)

\* the entities of the lists with several entities: one without dates,
\* one with a start date, a malformed end date and a duration, one with a
\* far end date only
Samples ==
    {<<UNDEF, UNDEF, UNDEF>>,
     <<Iso(MaxDay), MALFORMED, Num(MaxDuration)>>,
     <<UNDEF, Iso(FarDay), UNDEF>>}

SampleEntities(ids) ==
    {[id |-> i, startAt |-> s[1], endAt |-> s[2], duration |-> s[3]] :
        i \in ids, s \in Samples}

\* one tag with every date and duration of the bounds, next to one task
OneTag == {"g1"}
OneTask == {"t1"}

NextDayRange ==
    \/ \E p \in Projects : ProjectLoaded(p)
    \/ \E tgs \in NextEntityLists(tagsData, Entities(OneTag)) : TagsLoaded(tgs)
    \/ \E tks \in NextEntityLists(tasksData, SampleEntities(OneTask)) : TasksLoaded(tks)

SpecDayRange == Init /\ [][NextDayRange]_vars

\* several tags and tasks, in every order
NextTimeline ==
    \/ \E p \in Projects : ProjectLoaded(p)
    \/ \E tgs \in NextEntityLists(tagsData, SampleEntities(TagIds)) : TagsLoaded(tgs)
    \/ \E tks \in NextEntityLists(tasksData, SampleEntities(TaskIds)) : TasksLoaded(tks)

SpecTimeline == Init /\ [][NextTimeline]_vars

\* ------------------------------------------------------- action modals
\* the cell of a task row on a day is active: it has the onClick handler
CellIsActive(taskId, dayNumber) ==
    /\ dayNumber \in DayColumns(columnCount)
    /\ \E i \in 1..Len(timelineEntries) :
          /\ timelineEntries[i].entryType = "task"
          /\ timelineEntries[i].item.id = taskId
    /\ IsActive(MapGet(taskDayRange, taskId), dayNumber)

\* the modals return null unless open, and the create and the view modal
\* also unless they have their cell or action
ConfirmModalRendered == isActionConfirmModalOpen
CreateModalRendered == isActionCreateModalOpen /\ selectedCellInfo # NULL
ViewModalRendered == isActionViewModalOpen /\ actionToView # NULL

\* the backdrop of a rendered modal takes the clicks outside the modal
BehindBackdrop ==
    ConfirmModalRendered \/ CreateModalRendered \/ ViewModalRendered

\* the lists useAllActions can deliver after the list cur: the query is
\* refetched after each create or delete of an action; the actions are
\* those of the tasks of the list, in the order of their creation
NextActionLists(cur, ids) ==
    LET used == {cur[k].id : k \in 1..Len(cur)}
    IN {RemoveAt(cur, k) : k \in 1..Len(cur)}
       \cup {Append(cur, a) :
                a \in {x \in ActionRes : x.id \notin used /\ x.taskId \in ids}}

\* useAllActions delivers an action list
ActionsLoaded(acts) ==
    /\ acts # actions
    /\ actions' = acts
    /\ UNCHANGED <<cacheVars, timelineVars, componentVars, modalVars>>

\* handleCellClick, the onClick of an active cell of a task row
CellClick(taskId, dayNumber) ==
    /\ CellIsActive(taskId, dayNumber)
    /\ ~BehindBackdrop
    /\ \E existingAction \in {FindAction(actions, taskId, dayNumber)} :
          IF existingAction # UNDEF
          THEN /\ actionToView' = existingAction
               /\ isActionEditMode' = FALSE
               /\ isActionViewModalOpen' = TRUE
               /\ UNCHANGED <<selectedCellInfo, isActionConfirmModalOpen>>
          ELSE /\ selectedCellInfo' = [taskId |-> taskId, dayNumber |-> dayNumber]
               /\ isActionConfirmModalOpen' = TRUE
               /\ UNCHANGED <<actionToView, isActionEditMode, isActionViewModalOpen>>
    /\ UNCHANGED <<cacheVars, timelineVars, componentVars, actions, isActionCreateModalOpen>>

\* handleCloseActionConfirmModal
CloseActionConfirmModal ==
    /\ ConfirmModalRendered
    /\ isActionConfirmModalOpen' = FALSE
    /\ selectedCellInfo' = NULL
    /\ UNCHANGED <<cacheVars, timelineVars, componentVars, actions, isActionCreateModalOpen,
                   isActionViewModalOpen, actionToView, isActionEditMode>>

\* mutant: confirming clears the selected cell, as closing does
ConfirmCreateActionClearsCell ==
    /\ ConfirmModalRendered
    /\ isActionConfirmModalOpen' = FALSE
    /\ isActionCreateModalOpen' = TRUE
    /\ selectedCellInfo' = NULL
    /\ UNCHANGED <<cacheVars, timelineVars, componentVars, actions, isActionViewModalOpen,
                   actionToView, isActionEditMode>>

\* handleConfirmCreateAction
ConfirmCreateAction ==
    /\ ConfirmModalRendered
    /\ isActionConfirmModalOpen' = FALSE
    /\ isActionCreateModalOpen' = TRUE
    /\ UNCHANGED <<cacheVars, timelineVars, componentVars, actions, isActionViewModalOpen,
                   selectedCellInfo, actionToView, isActionEditMode>>

\* handleCloseActionCreateModal: the close button of the create modal, or
\* its submit after handleCreateAction succeeded
CloseActionCreateModal ==
    /\ CreateModalRendered
    /\ isActionCreateModalOpen' = FALSE
    /\ selectedCellInfo' = NULL
    /\ UNCHANGED <<cacheVars, timelineVars, componentVars, actions, isActionConfirmModalOpen,
                   isActionViewModalOpen, actionToView, isActionEditMode>>

\* handleCloseActionViewModal: the close button of the view modal, or its
\* delete button after handleActionDelete succeeded
CloseActionViewModal ==
    /\ ViewModalRendered
    /\ isActionViewModalOpen' = FALSE
    /\ actionToView' = NULL
    /\ isActionEditMode' = FALSE
    /\ UNCHANGED <<cacheVars, timelineVars, componentVars, actions, isActionConfirmModalOpen,
                   isActionCreateModalOpen, selectedCellInfo>>

\* handleActionEdit
ActionEdit ==
    /\ ViewModalRendered
    /\ ~isActionEditMode
    /\ isActionEditMode' = TRUE
    /\ UNCHANGED <<cacheVars, timelineVars, componentVars, actions, isActionConfirmModalOpen,
                   isActionCreateModalOpen, isActionViewModalOpen,
                   selectedCellInfo, actionToView>>

\* handleActionSave after updateAction succeeded: the details of an action
\* are not in the model, so actionToView keeps its value
ActionSave ==
    /\ ViewModalRendered
    /\ isActionEditMode
    /\ isActionEditMode' = FALSE
    /\ UNCHANGED <<cacheVars, timelineVars, componentVars, actions, isActionConfirmModalOpen,
                   isActionCreateModalOpen, isActionViewModalOpen,
                   selectedCellInfo, actionToView>>

\* the page with the action modals: a project with an anchor, and tasks
\* that start on the last of the days near the anchor and have a duration
AnchoredProjects == {p \in ProjectRes : p.startDate.kind = "dmy"}
ActionTasks == {e \in SampleEntities(TaskIds) : e.startAt # UNDEF}

NextActions ==
    \/ \E p \in AnchoredProjects : ProjectLoaded(p)
    \/ \E tks \in NextEntityLists(tasksData, ActionTasks) : TasksLoaded(tks)
    \/ \E acts \in NextActionLists(actions, TaskIdsOf(tasksData)) : ActionsLoaded(acts)
    \/ \E t \in TaskIds, d \in ActionDays : CellClick(t, d)
    \/ CloseActionConfirmModal
    \/ ConfirmCreateAction
    \/ CloseActionCreateModal
    \/ CloseActionViewModal
    \/ ActionEdit
    \/ ActionSave

SpecActions == Init /\ [][NextActions]_vars

\* ----------------------------------------------------------- task form
\* the parent opens the form for a new task or for a task to edit: the
\* effect resets the form state
OpenTaskModal(t) ==
    /\ ~isOpen
    /\ isOpen' = TRUE
    /\ formTask' = t
    /\ form' = createInitialState(t)
    /\ formError' = NULL
    /\ UNCHANGED <<submitted, pageVars, hookVars>>

CloseTaskModal ==
    /\ isOpen
    /\ isOpen' = FALSE
    /\ UNCHANGED <<formTask, form, formError, submitted, pageVars, hookVars>>

\* the 'Add note' checkbox
ChangeHasNote(checked) ==
    /\ isOpen
    /\ checked # form.hasNote
    /\ form' = [form EXCEPT !.hasNote = checked]
    /\ UNCHANGED <<isOpen, formTask, formError, submitted, pageVars, hookVars>>

\* the note textarea, rendered while the box is checked
ChangeNote(value) ==
    /\ isOpen
    /\ form.hasNote
    /\ value # form.note
    /\ form' = [form EXCEPT !.note = value]
    /\ UNCHANGED <<isOpen, formTask, formError, submitted, pageVars, hookVars>>

\* handleSubmit: fieldsValid stands for the checks of the other fields
\* (schema, dates, project), resolved for whether onSubmit resolves
handleSubmit(fieldsValid, resolved) ==
    /\ isOpen
    /\ LET trimmedNote == Trim(form.note)
           noteAction == determineNoteAction(form.hasNote, trimmedNote,
                                             NoteOf(formTask))
       IN  IF ~fieldsValid
           THEN /\ formError' = "Invalid input"
                /\ UNCHANGED <<isOpen, submitted>>
           ELSE IF form.hasNote /\ trimmedNote = <<>>
           THEN /\ formError' = "Provide a note"
                /\ UNCHANGED <<isOpen, submitted>>
           ELSE IF form.hasNote /\ Len(trimmedNote) > NOTE_MAX_LENGTH
           THEN /\ formError' = "Note too long"
                /\ UNCHANGED <<isOpen, submitted>>
           ELSE /\ submitted' = [form |-> form,
                                 existingNote |-> NoteOf(formTask),
                                 noteAction |-> noteAction]
                /\ IF resolved
                   THEN /\ isOpen' = FALSE
                        /\ formError' = NULL
                   ELSE /\ formError' = "Failed to save task"
                        /\ UNCHANGED isOpen
    /\ UNCHANGED <<formTask, form, pageVars, hookVars>>

NextTaskForm ==
    \/ \E t \in FormTasks : OpenTaskModal(t)
    \/ CloseTaskModal
    \/ \E checked \in BOOLEAN : ChangeHasNote(checked)
    \/ \E value \in Strings : ChangeNote(value)
    \/ \E fieldsValid \in BOOLEAN, resolved \in BOOLEAN :
          handleSubmit(fieldsValid, resolved)

SpecTaskForm == Init /\ [][NextTaskForm]_vars

\* ------------------------------------------------------ update mutation
\* update.mutateAsync: the mutationFn sends the task update and awaits it
Mutate(data, noteAction) ==
    /\ mutation.status # "pending"
    /\ mutation' = Mutation("pending", Request("updateTask"), data, noteAction)
    /\ sent' = <<Request("updateTask")>>
    /\ UNCHANGED <<backendTask, backendNote, queryInvalidated, pageVars, formVars>>

\* updateTaskApi resolves: handleNoteAction sends the note request, or
\* returns at once for 'none', the mutation succeeds and onSuccess runs
UpdateTaskResolved ==
    /\ mutation.status = "pending"
    /\ mutation.step = Request("updateTask")
    /\ backendTask' = mutation.data
    /\ \E request \in {handleNoteAction(mutation.noteAction)} :
          IF request = NULL
          THEN /\ mutation' = [mutation EXCEPT !.status = "success"]
               /\ queryInvalidated' = TRUE
               /\ UNCHANGED sent
          ELSE /\ mutation' = [mutation EXCEPT !.step = request]
               /\ sent' = Append(sent, request)
               /\ UNCHANGED queryInvalidated
    /\ UNCHANGED <<backendNote, pageVars, formVars>>

\* updateTaskApi rejects: the mutationFn throws
UpdateTaskRejected ==
    /\ mutation.status = "pending"
    /\ mutation.step = Request("updateTask")
    /\ mutation' = [mutation EXCEPT !.status = "error"]
    /\ UNCHANGED <<backendTask, backendNote, queryInvalidated, sent,
                   pageVars, formVars>>

\* the note request resolves: the mutation succeeds and onSuccess runs
NoteRequestResolved ==
    /\ mutation.status = "pending"
    /\ mutation.step # Request("updateTask")
    /\ backendNote' = ServeNote(backendNote, mutation.noteAction)
    /\ mutation' = [mutation EXCEPT !.status = "success"]
    /\ queryInvalidated' = TRUE
    /\ UNCHANGED <<backendTask, sent, pageVars, formVars>>

\* the note request rejects: the mutationFn throws
NoteRequestRejected ==
    /\ mutation.status = "pending"
    /\ mutation.step # Request("updateTask")
    /\ mutation' = [mutation EXCEPT !.status = "error"]
    /\ UNCHANGED <<backendTask, backendNote, queryInvalidated, sent,
                   pageVars, formVars>>

\* the invalidated task list query has fetched the list again
TaskListRefetched ==
    /\ queryInvalidated
    /\ queryInvalidated' = FALSE
    /\ UNCHANGED <<mutation, backendTask, backendNote, sent, pageVars, formVars>>

NextUpdateMutation ==
    \/ \E data \in TaskUpdateInputs, noteAction \in NoteActions :
          Mutate(data, noteAction)
    \/ UpdateTaskResolved
    \/ UpdateTaskRejected
    \/ NoteRequestResolved
    \/ NoteRequestRejected
    \/ TaskListRefetched

SpecUpdateMutation == Init /\ [][NextUpdateMutation]_vars

\* ---------------------------------------------------------------- claims
Effect == Eff(run, inFlight)

\* no listNotes call is in flight
Quiescent == \A t \in TaskIds : Outstanding(Effect, t) = 0

\* the entry of t is tagged with the updatedAt of t
Fresh(t) ==
    /\ t \in DOMAIN taskNotes
    /\ taskNotes[t].taskUpdatedAt = tasks[t].updatedAt

\* C1: at most one listNotes call of the fill effect is in flight for one
\* task id, in every reachable state.
C1_AtMostOneOutstanding ==
    \A t \in TaskIds : Outstanding(Effect, t) <= 1

\* C2: the entry written for task a depends only on the answer to a's own
\* call: when a's call was answered with a note and the call of another
\* task b of the same run fails, the entry of a is not null because of b.
C2_NoCrossTaskInterference ==
    [][\A b \in TaskIds : FetchFail(b) =>
          \A a \in DOMAIN run.status \ {b} :
             (/\ run.status[a].st = "ok"
              /\ run.status[a].note # NULL
              /\ a \in DOMAIN taskNotes')
             => taskNotes'[a].note = run.status[a].note]_vars

\* C3: when the listNotes call of a task fails in the run whose ignore flag
\* is unset, the cache then holds {note: null, taskUpdatedAt: updatedAt} for
\* the task, and the task is not among the tasks needing notes.
C3_FailureDegradesToNoNote ==
    [][\A t \in TaskIds : FetchFail(t) =>
          /\ t \in DOMAIN taskNotes'
          /\ taskNotes'[t] = TaskNoteCacheEntry(NULL, tasks[t].updatedAt)
          /\ t \notin TasksNeedingNotes(tasks', taskNotes')]_vars

\* C3 witness: the last call for a task failed and its entry is the null
\* entry tagged with the task's updatedAt.
C3_Witness ==
    \E t \in DOMAIN tasks :
        /\ tasks[t].note = UNDEF
        /\ lastCall[t] = FAILED
        /\ Fresh(t)
        /\ taskNotes[t].note = NULL

\* C4: once no call is in flight, a task without inline note whose last
\* call was answered with a page has an entry tagged with its updatedAt
\* whose note is the first element of that page, or null for an empty page.
C4_LazyNoteResolution ==
    \A t \in DOMAIN tasks :
        (/\ tasks[t].note = UNDEF
         /\ Quiescent
         /\ lastCall[t] \in Notes \cup {NULL})
        => /\ Fresh(t)
           /\ taskNotes[t].note = lastCall[t]

\* C5: when the cache holds an entry for a task and the task list changes
\* so that the task's updatedAt differs from the entry's taskUpdatedAt, the
\* reconciliation removes the entry and, unless the task now has an inline
\* note, a listNotes call for the task with the new updatedAt is in flight.
C5_StalenessTriggersRefetch ==
    [][\A t \in TaskIds :
          (/\ tasks' # tasks
           /\ t \in DOMAIN taskNotes
           /\ t \in DOMAIN tasks'
           /\ taskNotes[t].taskUpdatedAt # tasks'[t].updatedAt)
          => /\ t \notin DOMAIN taskNotes'
             /\ tasks'[t].note = UNDEF =>
                  /\ t \in PendingOf(run')
                  /\ run'.stamp[t] = tasks'[t].updatedAt]_vars

\* C5 witness: the prune effect dropped the stale entry of a task and the
\* call for its present updatedAt is in flight.
C5_Witness ==
    \E t \in DOMAIN tasks :
        /\ lastCall[t] = REFETCH
        /\ t \notin DOMAIN taskNotes
        /\ t \in PendingOf(run)
        /\ run.stamp[t] = tasks[t].updatedAt

\* C6: after the reconciliation for the present task list the cache has no
\* entry of a task id absent from the list (it is empty when the list is),
\* and no later answer of a listNotes call brings such an entry back.
C6_CacheKeysFollowTaskList ==
    DOMAIN taskNotes \subseteq DOMAIN tasks

\* C6 witness: a call is in flight for a task id that left the list, while
\* the cache holds an entry of a task that is in the list.
C6_Witness ==
    \E t \in TaskIds \ DOMAIN tasks :
        /\ inFlight[t] > 0
        /\ taskNotes # EmptyCache

\* C7: the answer or failure of a call whose task left the list, or changed
\* its updatedAt, while the call was in flight is never written: only calls
\* of tasks that are in the list with the updatedAt they were issued for can
\* write, and every entry a step writes is tagged with the present updatedAt
\* of its task.
C7_DiscardOnRemoval ==
    [][/\ \A t \in DOMAIN run'.stamp :
             /\ t \in DOMAIN tasks'
             /\ run'.stamp[t] = tasks'[t].updatedAt
       /\ \A t \in DOMAIN taskNotes' :
             (t \notin DOMAIN taskNotes \/ taskNotes'[t] # taskNotes[t])
             => /\ t \in DOMAIN tasks'
                /\ taskNotes'[t].taskUpdatedAt = tasks'[t].updatedAt]_vars

\* C7 witness: the call issued last for a task that left the list settled
\* after its run was ignored: it is no longer in flight, it was never
\* answered to a run that could write, and the task has no entry.
C7_Witness ==
    \E t \in TaskIds \ DOMAIN tasks :
        /\ lastCall[t] \in {PENDING, REFETCH}
        /\ Outstanding(Effect, t) = 0
        /\ t \notin DOMAIN taskNotes

\* C8: a task whose note field is present (a note or an explicit null) has
\* no listNotes call issued for it, and the note resolved for its row is
\* the inline note, whatever the cache holds for the task id.
C8_InlineNoteAuthoritative ==
    \A t \in DOMAIN tasks :
        tasks[t].note # UNDEF =>
            /\ t \notin DOMAIN run.stamp
            /\ ResolvedNote(tasks, taskNotes, t) = tasks[t].note

\* every task of the list has an inline note or an entry tagged with its
\* updatedAt
Settled ==
    \A t \in DOMAIN tasks : tasks[t].note # UNDEF \/ Fresh(t)

\* C9: once every task has an inline note or an entry tagged with its
\* updatedAt, running the prune and fill effects again with the same task
\* list leaves the cache as it is and issues no listNotes call.
C9_ReconcileIdempotent ==
    Settled =>
        LET again == RenderTasks(tasks, taskNotes, Effect)
        IN /\ DOMAIN tasks # {} => PruneEffect(tasks, taskNotes).changed = FALSE
           /\ again.notes = taskNotes
           /\ PendingOf(again.eff.run) = {}
           /\ \A t \in TaskIds :
                 Outstanding(again.eff, t) = Outstanding(Effect, t)

\* C9 witness: a task fetched its note, another has it inline, all settled.
C9_Witness ==
    /\ Settled
    /\ \E t \in DOMAIN tasks : tasks[t].note = UNDEF /\ lastCall[t] \in Notes
    /\ \E t \in DOMAIN tasks : tasks[t].note # UNDEF

\* C10: the answers of one run are written in one replacement of the cache:
\* an answer that is not the last of its run leaves the cache as it is, and
\* the last one leaves an entry for every task of the run.
C10_BatchAtomicity ==
    [][\A t \in TaskIds : \A c \in Contents : FetchOk(t, c) =>
          IF PendingOf(run) # {t}
          THEN taskNotes' = taskNotes
          ELSE \A u \in DOMAIN run.stamp :
                  /\ u \in DOMAIN taskNotes'
                  /\ taskNotes'[u] =
                       TaskNoteCacheEntry(
                          IF u = t THEN FirstNote(c) ELSE run.status[u].note,
                          run.stamp[u])]_vars

\* C10 witness: both tasks were answered with a page and hold the entries
\* of those pages, no call being in flight.
C10_Witness ==
    /\ DOMAIN tasks = TaskIds
    /\ Quiescent
    /\ \A t \in TaskIds :
          /\ tasks[t].note = UNDEF
          /\ lastCall[t] \in Notes
          /\ Fresh(t)
          /\ taskNotes[t].note = lastCall[t]

\* ------------------------------------------------- claims on the timeline
Rows == 1..Len(timelineEntries)

Item(i) == timelineEntries[i].item

\* the row of entry i has a range
Resolved(i) == Item(i).id \in DOMAIN taskDayRange

RangeOf(i) == taskDayRange[Item(i).id]

\* the project is loaded and its start date is an anchor
Anchored == ProjectStart(project) # NULL

AnchorDay == project.startDate.day

\* a date string that names a calendar day
IsValidDate(s) == s.kind = "iso"

\* the day number of a valid date: k + 1 for a date k days after the
\* anchor, 1 for a date on or before it
Offset(s) == IF s.day <= AnchorDay THEN 1 ELSE (s.day - AnchorDay) + 1

PositiveDuration(item) == item.duration.kind = "number" /\ item.duration.value >= 1

\* C11: every resolved day range starts on day 1 or later and ends on its
\* start day or later, whatever the start date, end date and duration of
\* the entity are.
C11_DayRangeWellFormed ==
    \A id \in DOMAIN taskDayRange :
       /\ taskDayRange[id].start >= 1
       /\ taskDayRange[id].end >= taskDayRange[id].start

\* a range resolved from an end date that is before the start date and
\* before the anchor
C11_Witness ==
    /\ Anchored
    /\ \E i \in Rows :
          /\ IsValidDate(Item(i).startAt) /\ IsValidDate(Item(i).endAt)
          /\ Item(i).endAt.day < Item(i).startAt.day
          /\ Item(i).endAt.day < AnchorDay
          /\ Resolved(i)
          /\ RangeOf(i).start = 1

BothValid(item) == IsValidDate(item.startAt) /\ IsValidDate(item.endAt)

\* the earlier and the later of the day numbers of the two dates
GivenStart(item) == Min(Offset(item.startAt), Offset(item.endAt))
GivenEnd(item) == Max(Offset(item.startAt), Offset(item.endAt))

\* C12: a resolved range of an entity with a positive integer duration d
\* spans at least d days; when the two dates span fewer than d days the
\* range starts where the dates start and ends on start + d - 1, and when
\* they span d days or more the range is the one the dates give.
C12_DurationExtension ==
    \A i \in Rows :
       Resolved(i) /\ PositiveDuration(Item(i)) =>
          LET d == Item(i).duration.value
              r == RangeOf(i)
          IN /\ (r.end - r.start) + 1 >= d
             /\ BothValid(Item(i)) =>
                   /\ r.start = GivenStart(Item(i))
                   /\ r.end = IF (GivenEnd(Item(i)) - GivenStart(Item(i))) + 1 < d
                              THEN (r.start + d) - 1
                              ELSE GivenEnd(Item(i))

\* a range whose end the duration moved: the dates span fewer days
C12_Witness ==
    /\ Anchored
    /\ \E i \in Rows :
          /\ Resolved(i) /\ PositiveDuration(Item(i)) /\ BothValid(Item(i))
          /\ (GivenEnd(Item(i)) - GivenStart(Item(i))) + 1 < Item(i).duration.value
          /\ RangeOf(i).end > GivenEnd(Item(i))

\* an entity with an end date, no start date and a duration that fits
\* between day 1 and the end date
EndOnly(item) ==
    /\ IsValidDate(item.endAt)
    /\ ~IsValidDate(item.startAt)
    /\ PositiveDuration(item)
    /\ (Offset(item.endAt) - item.duration.value) + 1 >= 1

\* C13: with an anchor, an entity with a valid end date, no valid start
\* date and a positive duration d that fits after day 1 has a range that
\* ends on the day number of the end date and spans exactly d days.
C13_EndOnlyEntities ==
    Anchored =>
       \A i \in Rows :
          EndOnly(Item(i)) =>
             /\ Resolved(i)
             /\ RangeOf(i).end = Offset(Item(i).endAt)
             /\ (RangeOf(i).end - RangeOf(i).start) + 1 = Item(i).duration.value

\* such an entity with a duration of several days and a malformed start
C13_Witness ==
    /\ Anchored
    /\ \E i \in Rows :
          /\ EndOnly(Item(i))
          /\ Item(i).startAt = MALFORMED
          /\ Item(i).duration.value > 1
          /\ Resolved(i)
          /\ RangeOf(i).start < RangeOf(i).end

NoDuration(item) == ~PositiveDuration(item)

\* the examples: anchor 2024-01-01 is day 0, so 2024-01-05 is day 4
ExampleAnchor == ProjectStart([startDate |-> Dmy(0)])
ExampleStartEnd ==
    [id |-> "t1", startAt |-> Iso(4), endAt |-> Iso(5), duration |-> UNDEF]
ExampleEndOnly ==
    [id |-> "t1", startAt |-> UNDEF, endAt |-> Iso(9), duration |-> Num(3)]

\* C14: a valid date k whole days after the anchor day has day number
\* k + 1 and a date on or before the anchor has day number 1: an entity
\* without a duration has the range from the smaller to the larger of the
\* day numbers of its dates (of its one date, if it has one only).  With
\* anchor 2024-01-01, start 2024-01-05 and end 2024-01-06 give {5, 6}, and
\* end 2024-01-10 with duration 3 gives {8, 10}.
C14_DayOffsetConversion ==
    /\ \A i \in Rows :
          Resolved(i) /\ NoDuration(Item(i)) =>
             LET item == Item(i)
                 days == {Offset(s) : s \in {x \in {item.startAt, item.endAt} :
                                                 IsValidDate(x)}}
             IN /\ RangeOf(i).start \in days
                /\ RangeOf(i).end \in days
                /\ \A n \in days : RangeOf(i).start <= n /\ n <= RangeOf(i).end
    /\ DayRange(ExampleStartEnd, ExampleAnchor) = [start |-> 5, end |-> 6]
    /\ DayRange(ExampleEndOnly, ExampleAnchor) = [start |-> 8, end |-> 10]

\* a start date after the anchor next to an end date before the anchor
C14_Witness ==
    /\ Anchored
    /\ \E i \in Rows :
          /\ Resolved(i) /\ NoDuration(Item(i)) /\ BothValid(Item(i))
          /\ Item(i).startAt.day > AnchorDay
          /\ Item(i).endAt.day < AnchorDay
          /\ RangeOf(i) = [start |-> 1,
                           end |-> (Item(i).startAt.day - AnchorDay) + 1]

\* the entity with its malformed dates taken away
Absent(s) == IF s = MALFORMED THEN UNDEF ELSE s
WithoutMalformed(item) ==
    [item EXCEPT !.startAt = Absent(item.startAt), !.endAt = Absent(item.endAt)]

\* C15: with an anchor, an entity has no range exactly when neither its
\* start date nor its end date is valid, whatever its duration, and an
\* entity with a malformed date has the result of the same entity with
\* that date absent; the computation has a result for every entity.
C15_UnresolvableEntities ==
    Anchored =>
       \A i \in Rows :
          /\ ~Resolved(i) <=>
                ~IsValidDate(Item(i).startAt) /\ ~IsValidDate(Item(i).endAt)
          /\ MapGet(taskDayRange, Item(i).id)
                = DayRange(WithoutMalformed(Item(i)), ProjectStart(project))

\* an entity with a malformed start date, no end date and a duration has
\* no range
C15_Witness ==
    /\ Anchored
    /\ \E i \in Rows :
          /\ Item(i).startAt = MALFORMED
          /\ Item(i).endAt = UNDEF
          /\ PositiveDuration(Item(i))
          /\ ~Resolved(i)

\* the largest end of the resolved ranges
MaxEnd ==
    CHOOSE n \in {taskDayRange[id].end : id \in DOMAIN taskDayRange} :
       \A id \in DOMAIN taskDayRange : taskDayRange[id].end <= n

\* C16: when no timeline entity has a resolved range, the column count is
\* the minimum, 30, without padding.
C16_ColumnCountWithoutRanges ==
    DOMAIN taskDayRange = {} => columnCount = MINIMUM_DAY_COLUMNS

\* C17: when at least one entity has a resolved range, the column count is
\* max(30, largest range end) + 10; the one range {1, 45} gives 55 and the
\* ranges {5, 6} and {8, 10} give 40.
C17_ColumnCountWithRanges ==
    /\ DOMAIN taskDayRange # {} =>
          columnCount = Max(MINIMUM_DAY_COLUMNS, MaxEnd) + 10
    /\ Render([startDate |-> Dmy(0)], <<>>,
              <<[id |-> "t1", startAt |-> Iso(0), endAt |-> Iso(44),
                 duration |-> UNDEF]>>).columnCount = 55
    /\ Render([startDate |-> Dmy(0)], <<ExampleEndOnly>>,
              <<ExampleStartEnd>>).columnCount = 40

\* two ranges, the larger one ending after day 30
C17_Witness ==
    /\ Cardinality(DOMAIN taskDayRange) >= 2
    /\ \E a, b \in DOMAIN taskDayRange :
          /\ taskDayRange[a].end < MINIMUM_DAY_COLUMNS
          /\ taskDayRange[b].end > MINIMUM_DAY_COLUMNS
          /\ columnCount = taskDayRange[b].end + 10

\* C18: in every state, with or without a project and whatever its start
\* date and the tags and tasks are, the column count is at least
\* MINIMUM_DAY_COLUMNS (30).
C18_ColumnCountLowerBound == columnCount >= MINIMUM_DAY_COLUMNS

\* an anchor and ranges that all end before day 30
C18_Witness ==
    /\ Anchored
    /\ DOMAIN taskDayRange # {}
    /\ MaxEnd < MINIMUM_DAY_COLUMNS
    /\ columnCount >= MINIMUM_DAY_COLUMNS

\* a start date written in ISO-8601 or as DD-MM-YYYY
IsProjectDate(s) == s.kind \in {"iso", "dmy"}

\* C19: a project start date is accepted as the anchor both as an
\* ISO-8601 string and as a DD-MM-YYYY string: in both cases the anchor is
\* not null and every entity with a valid date has a range.
C19_AnchorDateFormats ==
    project # UNDEF /\ IsProjectDate(project.startDate) =>
       /\ ProjectStart(project) # NULL
       /\ \A i \in Rows :
             IsValidDate(Item(i).startAt) \/ IsValidDate(Item(i).endAt)
                => Resolved(i)

\* C20: the rows are the tags in the order of the tag list followed by the
\* tasks in the order of the task list, one row each, whatever the dates
\* are; a row whose entity has no resolved range has no active cell.
C20_RowComposition ==
    /\ Len(timelineEntries) = Len(tagsData) + Len(tasksData)
    /\ \A i \in 1..Len(tagsData) :
          timelineEntries[i] = [entryType |-> "tag", item |-> tagsData[i]]
    /\ \A j \in 1..Len(tasksData) :
          timelineEntries[Len(tagsData) + j]
             = [entryType |-> "task", item |-> tasksData[j]]
    /\ \A i \in Rows :
          ~Resolved(i) =>
             \A dayNumber \in 1..columnCount :
                ~IsActive(MapGet(taskDayRange, Item(i).id), dayNumber)

\* two tags and two tasks with an anchor: the first tag ends far after the
\* second, a task starts before the tags end, and a row has no range
C20_Witness ==
    /\ Anchored
    /\ Len(tagsData) = 2 /\ Len(tasksData) = 2
    /\ Resolved(1) /\ Resolved(2) /\ Resolved(3)
    /\ RangeOf(1).end > RangeOf(2).end
    /\ RangeOf(3).start < RangeOf(1).end
    /\ ~Resolved(4)

\* taskDayRange.get(item.id) of the row of entry i
RowRange(i) == MapGet(taskDayRange, Item(i).id)

\* C21: in a row with a resolved range, the cell of a day in
\* 1..columnCount is active exactly when range.start <= day <= range.end,
\* and exactly one cell of the row carries the end-of-range flag, the
\* cell of day range.end.
C21_CellFlags ==
    \A i \in Rows :
       Resolved(i) =>
          /\ \A dayNumber \in DayColumns(columnCount) :
                IsActive(RowRange(i), dayNumber)
                   <=> RangeOf(i).start <= dayNumber /\ dayNumber <= RangeOf(i).end
          /\ {dayNumber \in DayColumns(columnCount) : IsEndDay(RowRange(i), dayNumber)}
                = {RangeOf(i).end}

\* a row whose range spans several days, with inactive cells before and
\* after it
C21_Witness ==
    \E i \in Rows :
       /\ Resolved(i)
       /\ 1 < RangeOf(i).start
       /\ RangeOf(i).start < RangeOf(i).end
       /\ IsEndDay(RowRange(i), RangeOf(i).end)
       /\ ~IsActive(RowRange(i), RangeOf(i).end + 1)
       /\ ~IsActive(RowRange(i), RangeOf(i).start - 1)

\* ------------------------------------------- claims on the action modals
\* the first position of an action of the task on the day
FirstMatch(t, d) ==
    CHOOSE k \in 1..Len(actions) :
       /\ actions[k].taskId = t /\ actions[k].day = d
       /\ \A j \in 1..(k - 1) : ~(actions[j].taskId = t /\ actions[j].day = d)

HasMatch(t, d) ==
    \E k \in 1..Len(actions) : actions[k].taskId = t /\ actions[k].day = d

\* C22: when several actions of the list have the same (taskId, day), a
\* click on that cell looks up the first of them in list order, never a
\* later one, and a cell of a task row is marked as having an action
\* exactly when the list has an action with its (taskId, day).
C22_DuplicateActions ==
    /\ [][\A t \in TaskIds, d \in ActionDays :
             CellClick(t, d) /\ HasMatch(t, d) =>
                /\ actionToView' = actions[FirstMatch(t, d)]
                /\ \A k \in 1..Len(actions) :
                      k > FirstMatch(t, d) => actionToView' # actions[k]]_vars
    /\ [](\A i \in 1..Len(timelineEntries) :
             \A dayNumber \in DayColumns(columnCount) :
                HasAction(timelineEntries[i].entryType = "tag", actions,
                          timelineEntries[i].item.id, dayNumber)
                   <=> /\ timelineEntries[i].entryType = "task"
                       /\ HasMatch(timelineEntries[i].item.id, dayNumber))

\* the view modal shows the first of two actions of one task on one day
C22_Witness ==
    /\ Len(actions) = 2
    /\ actions[1].taskId = actions[2].taskId
    /\ actions[1].day = actions[2].day
    /\ isActionViewModalOpen
    /\ actionToView = actions[1]
    /\ CellIsActive(actions[1].taskId, actions[1].day)


\* ---------------------------------------------- claims on the task form
\* t is s without its leading and trailing white space
Blank(s) == \A i \in 1..Len(s) : s[i] = Space
IsTrimOf(t, s) ==
    /\ t = <<>> \/ (t[1] # Space /\ t[Len(t)] # Space)
    /\ \E i \in 0..Len(s) :
          /\ i + Len(t) <= Len(s)
          /\ Blank(SubSeq(s, 1, i))
          /\ SubSeq(s, i + 1, i + Len(t)) = t
          /\ Blank(SubSeq(s, i + Len(t) + 1, Len(s)))
Trimmed(s) == CHOOSE t \in Strings : IsTrimOf(t, s)

\* C23: the note action handed to onSubmit is 'create' with the trimmed
\* body exactly when the box is checked, the body is non-empty and the task
\* has no note; 'update' with the id of the existing note exactly when the
\* box is checked, a note exists and the trimmed body differs from its
\* body; 'delete' with that id exactly when the box is unchecked and a note
\* exists; and 'none' in every other case.
C23_NoteAction ==
    submitted # NULL =>
        LET checked == submitted.form.hasNote
            body == Trimmed(submitted.form.note)
            existing == submitted.existingNote
            action == submitted.noteAction
        IN  /\ action.type \in {"create", "update", "delete", "none"}
            /\ action.type = "create" <=>
                   checked /\ body # <<>> /\ existing = NULL
            /\ action.type = "create" => action = [type |-> "create", body |-> body]
            /\ action.type = "update" <=>
                   checked /\ existing # NULL /\ body # existing.body
            /\ action.type = "update" =>
                   action = [type |-> "update", id |-> existing.id, body |-> body]
            /\ action.type = "delete" <=> ~checked /\ existing # NULL
            /\ action.type = "delete" =>
                   action = [type |-> "delete", id |-> existing.id]
            /\ action.type = "none" => action = [type |-> "none"]

\* an update was submitted whose body was typed with white space around it
C23_Witness ==
    /\ submitted # NULL
    /\ submitted.noteAction.type = "update"
    /\ submitted.form.note # submitted.noteAction.body


\* ------------------------------------------ claims on the cache, continued
\* C24: handleUpdateTask removes the cache entry of the edited task and
\* leaves the entries of the other tasks as they are; when the task has no
\* inline note, a new listNotes call for it is then in flight, also when
\* the removed entry carried the updatedAt the task has.
C24_RefetchAfterEdit ==
    [][\A t \in TaskIds : UpdateTask(t) =>
          /\ t \notin DOMAIN taskNotes'
          /\ DOMAIN taskNotes' = DOMAIN taskNotes \ {t}
          /\ \A u \in DOMAIN taskNotes' : taskNotes'[u] = taskNotes[u]
          /\ tasks[t].note = UNDEF =>
               /\ t \in PendingOf(run')
               /\ run'.stamp[t] = tasks[t].updatedAt
               /\ Outstanding(Eff(run', inFlight'), t)
                     > Outstanding(Eff(run, inFlight), t)]_vars

\* C24 witness: the entry of a task carried the task's updatedAt when the
\* edit deleted it, the call issued for it then is in flight, and another
\* task of the list kept its entry.
C24_Witness ==
    \E t \in DOMAIN tasks :
        /\ lastCall[t] = EDITED
        /\ t \notin DOMAIN taskNotes
        /\ t \in PendingOf(run)
        /\ \E u \in DOMAIN taskNotes : u # t


\* C25: a run of the fill effect writes to the cache only after every
\* listNotes call of the run has settled: a step that leaves the task list
\* as it is and a call of the run unsettled gives no task of the run an
\* entry it did not have, whether or not the task's own call has succeeded.
C25_BatchWritesAfterAllSettled ==
    [][(/\ tasks' = tasks
        /\ \E p \in PendingOf(run) :
              Outstanding(Eff(run', inFlight'), p)
                 >= Outstanding(Eff(run, inFlight), p))
       => \A u \in DOMAIN run.stamp :
             u \notin DOMAIN taskNotes => u \notin DOMAIN taskNotes']_vars


\* ------------------------------------- claims on the update mutation
NoteRequests == {Request("createNote"), Request("updateNote"), Request("deleteNote")}

\* C26: the update mutation sends the task update first and a note request
\* only after the task update succeeded; when the task update fails no
\* note request is sent; when the note request fails the mutation fails
\* with the task update applied; and the task list query is invalidated
\* only by a mutation both of whose steps succeeded.
C26_UpdateOrdering ==
    /\ [](/\ sent # <<>> => sent[1] = Request("updateTask")
          /\ \A i \in 2..Len(sent) :
                /\ sent[i] = handleNoteAction(mutation.noteAction)
                /\ sent[i] \in NoteRequests
                /\ backendTask = mutation.data
          /\ Len(sent) <= 2)
    /\ [][UpdateTaskRejected =>
             /\ mutation'.status = "error"
             /\ sent' = <<Request("updateTask")>>
             /\ UNCHANGED <<backendTask, backendNote, queryInvalidated>>]_vars
    /\ [][(mutation.status = "pending" /\ mutation'.status = "error"
           /\ mutation.step \in NoteRequests) =>
             /\ backendTask' = mutation.data
             /\ UNCHANGED <<backendNote, queryInvalidated>>]_vars
    /\ [][mutation'.status = "error" => mutation'.step = mutation.step
                                        /\ sent' = sent]_vars
    /\ [][(queryInvalidated' /\ ~queryInvalidated) =>
             /\ mutation'.status = "success"
             /\ backendTask' = mutation.data
             /\ mutation.noteAction.type # "none" =>
                   /\ sent = <<Request("updateTask"), mutation.step>>
                   /\ mutation.step \in NoteRequests
                   /\ backendNote' = ServeNote(backendNote, mutation.noteAction)]_vars

\* C26 witness: the note request of a mutation failed after its task update
\* changed the task of the backend, and the task list query is not
\* invalidated.
C26_Witness ==
    /\ mutation.status = "error"
    /\ mutation.step \in NoteRequests
    /\ sent = <<Request("updateTask"), mutation.step>>
    /\ backendTask = mutation.data
    /\ backendTask.title = "y"
    /\ ~queryInvalidated


\* --------------------------------------- claims on the timeline, continued
\* the one valid date of an entity that has exactly one
OneDate(item) ==
    IF IsValidDate(item.startAt) THEN item.startAt ELSE item.endAt

ExactlyOneDate(item) == IsValidDate(item.startAt) # IsValidDate(item.endAt)

\* C27: with an anchor, an entity with exactly one valid date, start or
\* end, and without a positive duration has a range of one day, the day
\* number of that date.
C27_SingleDateWithoutDuration ==
    Anchored =>
       \A i \in Rows :
          (ExactlyOneDate(Item(i)) /\ NoDuration(Item(i))) =>
             /\ Resolved(i)
             /\ RangeOf(i).start = Offset(OneDate(Item(i)))
             /\ RangeOf(i).end = Offset(OneDate(Item(i)))

\* an entity with an end date after the anchor, a malformed start and the
\* duration 0
C27_Witness ==
    /\ Anchored
    /\ \E i \in Rows :
          /\ Item(i).startAt = MALFORMED
          /\ IsValidDate(Item(i).endAt)
          /\ Item(i).duration = Num(0)
          /\ Resolved(i)
          /\ RangeOf(i).start = RangeOf(i).end
          /\ RangeOf(i).start > 1


\* the project is not loaded, or its start date is no date in either form
NoAnchorDate == project = UNDEF \/ ~IsProjectDate(project.startDate)

\* C28: when the project is not loaded or its start date cannot be parsed,
\* no entity has a range, no cell of any row is active, and the column
\* count is 30, whatever the dates of the tags and tasks are.
C28_MissingAnchor ==
    NoAnchorDate =>
       /\ DOMAIN taskDayRange = {}
       /\ \A i \in Rows : \A dayNumber \in DayColumns(columnCount) :
             ~IsActive(RowRange(i), dayNumber)
       /\ columnCount = 30

\* a project with a malformed start date and an entity dated beyond day 30
C28_Witness ==
    /\ project # UNDEF
    /\ project.startDate = MALFORMED
    /\ \E i \in Rows :
          /\ IsValidDate(Item(i).startAt)
          /\ IsValidDate(Item(i).endAt)
          /\ Item(i).endAt.day = FarDay
          /\ ~Resolved(i)
    /\ columnCount = 30


\* the days of the rendered columns on which the row of entry i is active
ActiveCells(i) ==
    {dayNumber \in DayColumns(columnCount) : IsActive(RowRange(i), dayNumber)}

\* C29: every resolved range ends at least ten columns before the last
\* column, so the row has end - start + 1 active cells and its end-of-range
\* cell is one of the rendered columns.
C29_RangesFitGrid ==
    \A i \in Rows :
       Resolved(i) =>
          /\ RangeOf(i).end + 10 <= columnCount
          /\ Cardinality(ActiveCells(i)) = (RangeOf(i).end - RangeOf(i).start) + 1
          /\ \E dayNumber \in DayColumns(columnCount) :
                IsEndDay(RowRange(i), dayNumber)

\* a range of several days that ends after day 30, ten columns before the
\* last one
C29_Witness ==
    \E i \in Rows :
       /\ Resolved(i)
       /\ RangeOf(i).start < RangeOf(i).end
       /\ RangeOf(i).end > MINIMUM_DAY_COLUMNS
       /\ RangeOf(i).end + 10 = columnCount


====
